---- MODULE Spec2Model ----
(***************************************************************************)
(* Model of the question-generation controllers                            *)
(*   generate_questions   (src/pages/0_Generate_Questions.py)              *)
(*   call_gemini_api      (src/streamlit_syllabus_app.py)                  *)
(* with their JSON helpers, and of the AI grading loop of                  *)
(*   src/pages/1_Student_Test.py.                                          *)
(*                                                                         *)
(* A model response is a sequence of tokens.  Each token stands for a run  *)
(* of characters of the response text:                                     *)
(*   "["  "]"  ","      the JSON punctuation characters                    *)
(*   "ws" "nl"          blanks / one line break                            *)
(*   "fence"            a triple-backtick marker (with or without a tag)   *)
(*   "prose"            words without brackets, braces, quotes or commas   *)
(*   "42"               a JSON number                                      *)
(*   "o1".."oStr"       one complete, double-quoted JSON object            *)
(*   "s1".."s3"         the same objects written with single quotes        *)
(*   "{tr"              an object cut off before its closing brace         *)
(*   "oQ"               an object with an escaped double quote in a string *)
(*   "sQ"               the same object written with single quotes, the    *)
(*                      double quote standing unescaped in its string      *)
(*   "xQ"               "sQ" with every single quote turned into a double  *)
(*                      quote: balanced braces, no longer JSON             *)
(*   "oLs"              an object with a string that holds a triple        *)
(*                      backtick and then a U+2028 line separator          *)
(*   "oL1" "oL2"        "oLs" up to, and after, its line separator         *)
(* and, in grading responses,                                              *)
(*   "g15".."gNoMarks"  one complete {"marks": .., "feedback": ..} object  *)
(*   "{}"               the empty object                                   *)
(*   "pm7"              prose holding the words  marks: 7                  *)
(* Grading marks are counted in tenths of a mark.                          *)
(***************************************************************************)
EXTENDS Integers, Sequences, FiniteSets, TLC

\* ------------------------------------------------------------------ bounds
MaxObjs == 3        \* most objects one response text holds
MaxExpected == 3    \* largest `expected` / `expected_count`
MaxTotal == 3       \* largest `total_marks`
MaxQuestions == 2   \* most questions in a loaded test
MaxMarks == 2       \* largest "marks" of a question of a loaded test
MaxGradeCalls == 2  \* most grading model calls explored in one session
MaxSaves == 3       \* most saves of generated tests explored

\* retries: the default of both controllers, which every caller uses
Retries == 1

\* ------------------------------------------------------------------ tokens
ObjPool == <<"o1", "o2", "o3", "oInf", "oStr">>
SqPool == <<"s1", "s2", "s3">>

ObjSet == {ObjPool[i] : i \in 1..Len(ObjPool)}
SqSet == {SqPool[i] : i \in 1..Len(SqPool)}

\* grading objects, each with a "feedback" string except gNoFb
GObjSet == {"g15", "gNeg", "gHalf", "gOne", "gStr", "gBad", "gNaN", "gInf",
            "gNoMarks", "gNoFb"}

\* the value of the "marks" key of a grading object, as float() sees it:
\*   num: a finite number (tenths), also from a numeric string such as "1"
\*   nan, inf: NaN, Infinity;  bad: float() raises;  missing: no such key
GMarksOf(g) ==
    CASE g = "g15" -> [kind |-> "num", v |-> 150]
      [] g = "gNeg" -> [kind |-> "num", v |-> -50]
      [] g = "gHalf" -> [kind |-> "num", v |-> 5]
      [] g = "gOne" -> [kind |-> "num", v |-> 10]
      [] g = "gNoFb" -> [kind |-> "num", v |-> 10]
      [] g = "gStr" -> [kind |-> "num", v |-> 10]
      [] g = "gNaN" -> [kind |-> "nan", v |-> 0]
      [] g = "gInf" -> [kind |-> "inf", v |-> 0]
      [] g = "gBad" -> [kind |-> "bad", v |-> 0]
      [] OTHER -> [kind |-> "missing", v |-> 0]

\* re.search(r'marks["\s:]+(\d+\.?\d*)', token): the digits matched, in
\* tenths, or -1 when the token has no match
RegexMarksOf(t) ==
    CASE t = "g15" -> 150
      [] t = "gHalf" -> 5
      [] t \in {"gOne", "gNoFb", "gStr"} -> 10
      [] t = "pm7" -> 70
      [] OTHER -> -1

\* the value of the "marks" key of each object
\*   int: a JSON integer; nonfinite: Infinity / NaN / 1e999; str: a string
MarksOf(o) ==
    CASE o = "o1" -> [kind |-> "int", v |-> 1]
      [] o = "o2" -> [kind |-> "int", v |-> 2]
      [] o = "o3" -> [kind |-> "int", v |-> 3]
      [] o = "oInf" -> [kind |-> "nonfinite", v |-> 0]
      [] OTHER -> [kind |-> "str", v |-> 0]

\* further complete objects, used by the texts of ParseSpec only
XObjSet == {"oQ", "oLs"}

\* str.replace("'", '"') on one token
Requote(t) ==
    CASE t = "s1" -> "o1"
      [] t = "s2" -> "o2"
      [] t = "s3" -> "o3"
      [] t = "sQ" -> "xQ"
      [] OTHER -> t

\* number of double / single quote characters in one token: an object has
\* three keys and two string values ("marks" is a number, a string in oStr)
DQuotes(t) ==
    IF t \in {"oStr", "oQ", "xQ"} THEN 12
    ELSE IF t \in ObjSet \cup {"oLs"} THEN 10
    ELSE IF t = "oL1" THEN 3
    ELSE IF t = "oL2" THEN 7
    ELSE IF t = "sQ" THEN 2
    ELSE 0
SQuotes(t) == IF t \in SqSet \cup {"sQ"} THEN 10 ELSE 0

IsWs(t) == t \in {"ws", "nl"}
\* tokens whose characters open and close exactly one brace pair
IsBalanced(t) == t \in ObjSet \cup SqSet \cup XObjSet \cup {"sQ", "xQ"}
\* isinstance(x, dict) for a parsed value
IsDict(x) == x \in ObjSet \cup XObjSet \cup GObjSet \cup {"{}"}
\* tokens that are one JSON value on their own
IsValue(t) == IsDict(t) \/ t = "42"

\* ----------------------------------------------------------- str helpers
RECURSIVE LStrip(_)
LStrip(s) == IF s # <<>> /\ IsWs(Head(s)) THEN LStrip(Tail(s)) ELSE s

RECURSIVE RStrip(_)
RStrip(s) ==
    IF s # <<>> /\ IsWs(s[Len(s)]) THEN RStrip(SubSeq(s, 1, Len(s) - 1)) ELSE s

\* str.strip()
Strip(s) == RStrip(LStrip(s))

\* str.rstrip(',')
RECURSIVE RStripComma(_)
RStripComma(s) ==
    IF s # <<>> /\ s[Len(s)] = ","
    THEN RStripComma(SubSeq(s, 1, Len(s) - 1)) ELSE s

\* str.find / str.rfind of a one-character token; 0 stands for -1
Find(s, c) ==
    IF \E i \in 1..Len(s) : s[i] = c
    THEN CHOOSE i \in 1..Len(s) : s[i] = c /\ \A j \in 1..(i - 1) : s[j] # c
    ELSE 0

RFind(s, c) ==
    IF \E i \in 1..Len(s) : s[i] = c
    THEN CHOOSE i \in 1..Len(s) : s[i] = c /\ \A j \in (i + 1)..Len(s) : s[j] # c
    ELSE 0

\* '```' in text
HasBackticks(text) == \E i \in 1..Len(text) : text[i] \in {"fence", "oLs", "oL1"}

\* the line boundaries str.splitlines() sees inside a token: U+2028 is one
RECURSIVE LineBreaks(_)
LineBreaks(s) ==
    IF s = <<>> THEN <<>>
    ELSE (IF Head(s) = "oLs" THEN <<"oL1", "nl", "oL2">> ELSE <<Head(s)>>)
         \o LineBreaks(Tail(s))

RECURSIVE SplitNl(_)
SplitNl(s) ==
    IF s = <<>> THEN <<>>
    ELSE LET n == Find(s, "nl")
         IN IF n = 0 THEN <<s>>
            ELSE <<SubSeq(s, 1, n - 1)>> \o SplitNl(SubSeq(s, n + 1, Len(s)))

\* str.splitlines(): no empty last line after a final line break
SplitLines(s) == SplitNl(LineBreaks(s))

\* '\n'.join(lines)
RECURSIVE JoinLines(_)
JoinLines(ls) ==
    IF ls = <<>> THEN <<>>
    ELSE IF Len(ls) = 1 THEN ls[1]
    ELSE ls[1] \o <<"nl">> \o JoinLines(Tail(ls))

\* l.strip().startswith('```')
StartsWithFence(l) == LET t == Strip(l) IN t # <<>> /\ t[1] = "fence"

NotFenceLine(l) == ~StartsWithFence(l)

\* ------------------------------------------------------------- json.loads
\* Strict parse of a text.  The texts of this model hold no nested arrays,
\* so a value is an object, a number, or a flat array of those.
ParseFail == [ok |-> FALSE, kind |-> "none", items |-> <<>>]

NotWs(t) == ~IsWs(t)

ElemsOk(s) ==
    /\ Len(s) % 2 = 1
    /\ \A i \in 1..Len(s) : IF i % 2 = 1 THEN IsValue(s[i]) ELSE s[i] = ","

Elems(s) == [i \in 1..((Len(s) + 1) \div 2) |-> s[2 * i - 1]]

JsonLoads(text) ==
    LET s == SelectSeq(text, NotWs)
    IN IF Len(s) = 1 /\ IsValue(s[1])
       THEN [ok |-> TRUE,
             kind |-> IF IsDict(s[1]) THEN "dict" ELSE "scalar",
             items |-> <<s[1]>>]
       ELSE IF Len(s) >= 2 /\ s[1] = "[" /\ s[Len(s)] = "]"
       THEN LET inner == SubSeq(s, 2, Len(s) - 1)
            IN IF inner = <<>> THEN [ok |-> TRUE, kind |-> "list", items |-> <<>>]
               ELSE IF ElemsOk(inner)
               THEN [ok |-> TRUE, kind |-> "list", items |-> Elems(inner)]
               ELSE ParseFail
       ELSE ParseFail

AllDicts(items) == \A i \in 1..Len(items) : IsDict(items[i])

\* ------------------------------------------ helpers of generate_questions
None == [none |-> TRUE, items |-> <<>>]
Some(items) == [none |-> FALSE, items |-> items]

_extract_array(text) ==
    LET s == Find(text, "[")
        e == RFind(text, "]")
    IN IF s # 0 /\ e # 0 /\ e > s THEN SubSeq(text, s, e) ELSE text

_strip_fences(text) ==
    IF HasBackticks(text)
    THEN JoinLines(SelectSeq(SplitLines(text), NotFenceLine))
    ELSE text

_try_json(raw) ==
    LET cand == _extract_array(_strip_fences(Strip(raw)))
        data == JsonLoads(cand)
    IN IF data.ok /\ data.kind = "list" /\ AllDicts(data.items)
       THEN Some(data.items)
       ELSE None

\* the character walk of _partial_objects, one token at a time; an object
\* token raises the brace level by one and lowers it again
RECURSIVE PartialWalk(_, _, _, _, _)
PartialWalk(t, i, objs, level, buf) ==
    IF i > Len(t) THEN objs
    ELSE LET ch == t[i]
             b == Append(buf, ch)
         IN IF ch \in {"{tr", "oL1"} THEN PartialWalk(t, i + 1, objs, level + 1, b)
            ELSE IF ch = "oL2" THEN PartialWalk(t, i + 1, objs, level - 1, b)
            ELSE IF IsBalanced(ch) /\ level = 0
            THEN LET o == JsonLoads(RStripComma(Strip(b)))
                 IN IF o.ok /\ o.kind = "dict"
                    THEN PartialWalk(t, i + 1, Append(objs, o.items[1]), level, <<>>)
                    ELSE PartialWalk(t, i + 1, objs, level, b)
            ELSE PartialWalk(t, i + 1, objs, level, b)

_partial_objects(raw) ==
    LET t0 == _strip_fences(Strip(raw))
        t == IF t0 # <<>> /\ t0[1] = "[" THEN Tail(t0) ELSE t0
    IN PartialWalk(t, 1, <<>>, 0, <<>>)

\* --------------------------------------------- helpers of call_gemini_api
_extract_json_array(text) ==
    LET start == Find(text, "[")
        end == RFind(text, "]")
    IN IF start # 0 /\ end # 0 /\ end > start THEN SubSeq(text, start, end) ELSE text

_clean_fences(text) ==
    IF HasBackticks(text)
    THEN JoinLines(SelectSeq(SplitLines(text), NotFenceLine))
    ELSE text

_try_parse(raw) ==
    LET candidate == _extract_json_array(_clean_fences(Strip(raw)))
        data == JsonLoads(candidate)
    IN IF data.ok /\ data.kind = "list" /\ AllDicts(data.items)
       THEN Some(data.items)
       ELSE None

\* str.count of the double / the single quote character
RECURSIVE CountDQ(_)
CountDQ(s) == IF s = <<>> THEN 0 ELSE DQuotes(Head(s)) + CountDQ(Tail(s))

RECURSIVE CountSQ(_)
CountSQ(s) == IF s = <<>> THEN 0 ELSE SQuotes(Head(s)) + CountSQ(Tail(s))

\* re.sub(r',\s*(\]|})', r'\1', arr): a comma is dropped when only blanks
\* separate it from a closing bracket
RECURSIVE DropTrailingCommas(_)
DropTrailingCommas(s) ==
    IF s = <<>> THEN <<>>
    ELSE IF Head(s) = "," /\ LStrip(Tail(s)) # <<>> /\ Head(LStrip(Tail(s))) = "]"
    THEN DropTrailingCommas(LStrip(Tail(s)))
    ELSE <<Head(s)>> \o DropTrailingCommas(Tail(s))

repair_json_candidate(raw) ==
    LET txt0 == Strip(raw)
        txt == IF HasBackticks(txt0)
               THEN JoinLines(SelectSeq(SplitLines(txt0), NotFenceLine))
               ELSE txt0
        arr0 == _extract_json_array(txt)
        arr1 == IF CountDQ(arr0) < CountSQ(arr0)
                THEN [i \in 1..Len(arr0) |-> Requote(arr0[i])]
                ELSE arr0
        arr2 == Strip(DropTrailingCommas(arr1))
    IN IF arr2 # <<>> /\ (IsBalanced(arr2[1]) \/ arr2[1] \in {"{tr", "oL1"})
          /\ (IsBalanced(arr2[Len(arr2)]) \/ arr2[Len(arr2)] = "oL2")
       THEN <<"[">> \o arr2 \o <<"]">>
       ELSE arr2

RECURSIVE PartialWalk2(_, _, _, _, _)
PartialWalk2(txt, i, objs, brace_level, current_obj) ==
    IF i > Len(txt) THEN objs
    ELSE LET ch == txt[i]
             cur == Append(current_obj, ch)
         IN IF ch \in {"{tr", "oL1"}
            THEN PartialWalk2(txt, i + 1, objs, brace_level + 1, cur)
            ELSE IF ch = "oL2"
            THEN PartialWalk2(txt, i + 1, objs, brace_level - 1, cur)
            ELSE IF IsBalanced(ch) /\ brace_level = 0
            THEN LET obj == JsonLoads(RStripComma(Strip(cur)))
                 IN IF obj.ok
                    THEN PartialWalk2(txt, i + 1,
                                      IF obj.kind = "dict"
                                      THEN Append(objs, obj.items[1]) ELSE objs,
                                      brace_level, <<>>)
                    ELSE PartialWalk2(txt, i + 1, objs, brace_level, cur)
            ELSE PartialWalk2(txt, i + 1, objs, brace_level, cur)

_parse_partial_objects(raw) ==
    LET txt0 == _clean_fences(Strip(raw))
        txt == IF txt0 # <<>> /\ txt0[1] = "[" THEN Tail(txt0) ELSE txt0
    IN PartialWalk2(txt, 1, <<>>, 0, <<>>)

\* ------------------------------------------------------ response texts
RECURSIVE Join(_, _)
Join(objs, sep) ==
    IF objs = <<>> THEN <<>>
    ELSE IF Len(objs) = 1 THEN objs
    ELSE <<Head(objs)>> \o sep \o Join(Tail(objs), sep)

RECURSIVE PickInOrder(_, _)
PickInOrder(pool, S) ==
    IF S = {} THEN <<>>
    ELSE LET m == CHOOSE i \in S : \A j \in S : i <= j
         IN <<pool[m]>> \o PickInOrder(pool, S \ {m})

\* the object lists a response may hold: up to MaxObjs objects of the pool
ObjSeqs ==
    {PickInOrder(ObjPool, S) :
        S \in {T \in SUBSET (1..Len(ObjPool)) : Cardinality(T) <= MaxObjs}}

\* those with integer marks only
IntSeqs == {os \in ObjSeqs : \A i \in 1..Len(os) : MarksOf(os[i]).kind = "int"}

SqSeqs ==
    {PickInOrder(SqPool, S) :
        S \in {T \in SUBSET (1..Len(SqPool)) : T # {} /\ Cardinality(T) <= MaxObjs}}

ValidArray(os) == <<"[">> \o Join(os, <<",">>) \o <<"]">>
Truncated(os) ==
    <<"[">> \o Join(os, <<",">>) \o (IF os = <<>> THEN <<>> ELSE <<",">>) \o <<"{tr">>

\* the object lists shown inside a wrapper: the first n objects of the pool
WrapSeqs == {os \in IntSeqs : os = PickInOrder(ObjPool, 1..Len(os))}

Texts ==
    {ValidArray(os) : os \in ObjSeqs}
    \cup {Truncated(os) : os \in IntSeqs}
    \cup {<<"prose", "nl">> \o ValidArray(os) : os \in WrapSeqs}
    \cup {<<"prose", "nl", "fence", "nl">> \o ValidArray(os) \o <<"nl", "fence">> :
            os \in WrapSeqs}
    \cup {<<"fence", "ws">> \o ValidArray(os) \o <<"ws", "fence">> : os \in WrapSeqs}
    \cup {<<"[">> \o Join(os, <<",">>) : os \in WrapSeqs}
    \cup {<<"[">> \o Join(os, <<"nl">>) : os \in WrapSeqs}
    \cup {<<"[">> \o Join(os, <<",">>) \o <<",", "nl", "]">> : os \in WrapSeqs \ {<<>>}}
    \cup {Join(os, <<",">>) : os \in WrapSeqs}
    \cup {ValidArray(os) : os \in SqSeqs}
    \cup {<<"42">>, <<"prose">>, <<"[", "42", "]">>, <<"[", "42", ",", "42", "]">>,
          <<"[", "o1", ",", "42", "]">>}

\* ------------------------------------------------------------- the state
VARIABLES
    fn,           \* "gq": generate_questions, "cga": call_gemini_api
    expected,     \* expected / expected_count
    total_marks,
    pc,           \* "initial", "cont", "returned", "end"
    attempt,
    last_raw,
    partial,      \* records recovered from the attempt's initial response
    new_items,    \* records taken from the continuation response
    result,       \* the value returned: None or Some(list)
    calls,        \* the generate_content calls issued so far, in order
    msgs,         \* the st.info / st.warning / st.error / st.success messages
    raised,       \* a generate_content call raised
    caught,       \* the except branch of the attempt loop ran
    raw_latest,   \* last_raw is the text of the latest response received
    cont_shown,   \* the records listed in the attempt's continuation prompt
    files,        \* the test_<n>.json files: records [n, data]
    \* the Student Test page
    current_test,   \* st.session_state.current_test: the questions' "marks"
    student_answers,
    gpc,            \* "idle", "grading", "graded"
    gi,             \* the loop index i of the grading pass
    g_calls,        \* grading model calls made so far
    g_raw,          \* response.text of the latest grading call
    scores,         \* scores["q_1"], scores["q_2"], ... in tenths
    feedback_list,
    total_earned,
    final,          \* session state final_scores / total_earned / ai_feedback
    current_qs,     \* st.session_state.current_test: the questions' "question"
    graded_of,      \* the test and the answers that `final` was computed from
    test_submitted,
    student_name,
    answer_history, \* entries [q, a]: question text -> the answer last typed
    \* sessions saving generated tests
    savers,         \* per session: where its "Generate Test" handler stands
    written,        \* the saves of test files finished so far, in order
    \* the JSON helpers applied to one text
    p_kind,         \* how the array is written: "valid", "prose", "single"
    p_objs,         \* the records written in the array, in order
    p_base,         \* the text T that holds the array
    p_wrap,         \* the fenced block put around T, "none" when there is none
    p_text,         \* the text handed to the helpers
    p_out,          \* what the helpers returned for p_text
    ppc             \* "idle", "text", "wrapped", "done"

genVars == <<fn, expected, total_marks, pc, attempt, last_raw, partial, new_items,
             result, calls, msgs, raised, caught, raw_latest, cont_shown,
             files>>

gradeVars == <<current_test, student_answers, gpc, gi, g_calls, g_raw, scores,
               feedback_list, total_earned, final, current_qs, graded_of>>

pageVars == <<test_submitted, student_name, answer_history>>

saveVars == <<savers, written>>

parseVars == <<p_kind, p_objs, p_base, p_wrap, p_text, p_out, ppc>>

vars == <<genVars, gradeVars, parseVars, pageVars, saveVars>>

NoOut == [extract |-> <<>>, try_json |-> None, try_parse |-> None,
          repaired |-> [ok |-> FALSE, kind |-> "none", items |-> <<>>]]

\* no text is before the helpers
ParseIdle ==
    /\ p_kind = "none"
    /\ p_objs = <<>>
    /\ p_base = <<>>
    /\ p_wrap = "none"
    /\ p_text = <<>>
    /\ p_out = NoOut
    /\ ppc = "idle"

\* the sessions that use the application at the same time
Sessions == {1, 2}

NotGraded == [present |-> FALSE, qs |-> <<>>, marks |-> <<>>, answers |-> <<>>]

IdleSaver == [pc |-> "idle", data |-> <<>>, num |-> 0]

\* lines 29-38 of the Student Test page: a fresh session
PageIdle ==
    /\ test_submitted = FALSE
    /\ student_name = ""
    /\ answer_history = {}

\* no session is saving a test
SaveIdle ==
    /\ savers = [s \in Sessions |-> IdleSaver]
    /\ written = <<>>

\* an answer that .strip() leaves empty: "" or white space only
Blank(a) == a \in {"", "ws"}

Msg(m, a, b) == [m |-> m, a |-> a, b |-> b]

Call(kind, att, count, marks) ==
    [kind |-> kind, attempt |-> att, reminder |-> att # 0,
     count |-> count, marks |-> marks]

RECURSIVE SumOf(_)
SumOf(s) == IF s = <<>> THEN 0 ELSE Head(s) + SumOf(Tail(s))

Max(a, b) == IF a >= b THEN a ELSE b
Min(a, b) == IF a <= b THEN a ELSE b

\* a slice that keeps the last n elements: combined[-expected:]
Take_mut(s, n) == SubSeq(s, Len(s) - Min(n, Len(s)) + 1, Len(s))

\* combined[:expected]
Take(s, n) == SubSeq(s, 1, Min(n, Len(s)))

\* --------------------------------------------------- marks accounting
\* sum(int(o.get('marks', 0)) for o in parsed
\*     if isinstance(o.get('marks', 0), (int, float)))
\* int() of a non-finite float raises OverflowError / ValueError
UsedRaises(objs) == \E i \in 1..Len(objs) : MarksOf(objs[i]).kind = "nonfinite"

RECURSIVE UsedMarks(_)
UsedMarks(objs) ==
    IF objs = <<>> THEN 0
    ELSE (IF MarksOf(Head(objs)).kind = "int" THEN MarksOf(Head(objs)).v ELSE 0)
         + UsedMarks(Tail(objs))

\* a count that forgets the records already recovered
RemainCount_mut(exp, objs) == exp

RemainCount(exp, objs) == exp - Len(objs)

\* a budget that forgets the marks already used
RemainMarks_mut(total, used, remain_count) == total

RemainMarks(total, used, remain_count) == Max(total - used, remain_count)

ContinuationCall(att, exp, total, objs) ==
    Call("cont", att, RemainCount(exp, objs),
         RemainMarks(total, UsedMarks(objs), RemainCount(exp, objs)))

\* the records the continuation prompt lists: generate_questions puts
\* json.dumps(parsed, indent=2) into it (lines 160-165)
GQ_ContShown(parsed) == parsed

\* the continuation prompt of call_gemini_api (lines 285-294) states only
\* how many records were recovered, len(partial), and lists none of them
CGA_ContShown(part) == <<>>

\* the new records put in front of the recovered ones
Combined_mut(recovered, new) == new \o recovered

Combined(recovered, new) == recovered \o new

\* ------------------------------------------------------ loop control
\* a loop that grants one attempt more than retries + 1
LoopContinues_mut(att) == att <= Retries + 1

\* `while attempt <= retries` after `attempt += 1`
LoopContinues(att) == att <= Retries

\* an except branch that counts a failed attempt instead of leaving the loop
AfterExcept_mut(att) ==
    [pc |-> IF LoopContinues(att + 1) THEN "initial" ELSE "returned",
     attempt |-> att + 1]

\* `except Exception: st.error(...); break`
AfterExcept(att) == [pc |-> "returned", attempt |-> att]

\* ------------------------------------------------- generate_questions
\* a parse that falls back on the records of the attempt before
GQ_Parsed_mut(raw) ==
    LET parsed == _try_json(raw)
    IN IF parsed.items # <<>> THEN parsed.items
       ELSE IF _partial_objects(raw) # <<>> THEN _partial_objects(raw)
       ELSE partial

\* lines 151-155: the direct parse, else the partial-object scan
GQ_Parsed(raw) ==
    LET parsed == _try_json(raw)
    IN IF parsed.items # <<>> THEN parsed.items ELSE _partial_objects(raw)

\* a direct return that also accepts an array longer than expected
GQ_ReturnsDirect_mut(raw, exp) ==
    LET parsed == _try_json(raw)
    IN parsed.items # <<>> /\ Len(parsed.items) >= exp

\* line 152: the direct parse is returned at once
GQ_ReturnsDirect(raw, exp) ==
    LET parsed == _try_json(raw)
    IN parsed.items # <<>> /\ Len(parsed.items) = exp

\* line 156
GQ_WantsContinuation(parsed, exp) == parsed # <<>> /\ Len(parsed) < exp

\* lines 169-172
GQ_NewItems(c_raw) ==
    LET d == _try_json(c_raw)
    IN IF d.items # <<>> THEN d.items ELSE _partial_objects(c_raw)

\* lines 176-180 after a failed attempt
GQ_NextAttempt ==
    /\ attempt' = attempt + 1
    /\ IF LoopContinues(attempt + 1)
       THEN /\ pc' = "initial"
            /\ UNCHANGED msgs
       ELSE /\ pc' = "returned"
            /\ msgs' = Append(msgs, Msg("error_incomplete", 0, 0))
    /\ result' = None

\* lines 173-180 after an exception inside the try block
GQ_Except ==
    /\ caught' = TRUE
    /\ pc' = AfterExcept(attempt).pc
    /\ attempt' = AfterExcept(attempt).attempt
    /\ msgs' = IF AfterExcept(attempt).pc = "returned"
               THEN msgs \o <<Msg("error_generation_failed", 0, 0),
                               Msg("error_incomplete", 0, 0)>>
               ELSE Append(msgs, Msg("error_generation_failed", 0, 0))
    /\ result' = None

GQ_Initial(raw) ==
    LET parsed == GQ_Parsed(raw)
        initial == Call("initial", attempt, expected, total_marks)
    IN
    /\ fn = "gq"
    /\ UNCHANGED <<gradeVars, parseVars, pageVars, saveVars>>
    /\ pc = "initial"
    /\ last_raw' = raw
    /\ raw_latest' = TRUE
    /\ new_items' = <<>>
    /\ partial' = parsed
    /\ cont_shown' = IF ~GQ_ReturnsDirect(raw, expected)
                        /\ GQ_WantsContinuation(parsed, expected)
                        /\ ~UsedRaises(parsed)
                     THEN GQ_ContShown(parsed) ELSE <<>>
    /\ UNCHANGED <<fn, expected, total_marks, raised, files>>
    /\ IF GQ_ReturnsDirect(raw, expected)
       THEN /\ result' = Some(parsed)
            /\ pc' = "returned"
            /\ calls' = Append(calls, initial)
            /\ UNCHANGED <<attempt, msgs, caught>>
       ELSE IF GQ_WantsContinuation(parsed, expected)
       THEN IF UsedRaises(parsed)
            THEN /\ GQ_Except
                 /\ calls' = Append(calls, initial)
            ELSE /\ pc' = "cont"
                 /\ msgs' = Append(msgs, Msg("info_partial", Len(parsed), expected))
                 /\ calls' = calls \o
                      <<initial,
                        ContinuationCall(attempt, expected, total_marks, parsed)>>
                 /\ UNCHANGED <<attempt, result, caught>>
       ELSE /\ GQ_NextAttempt
            /\ calls' = Append(calls, initial)
            /\ UNCHANGED caught

\* generate_content raises on the initial call of an attempt
GQ_InitialRaises ==
    /\ fn = "gq"
    /\ UNCHANGED <<gradeVars, parseVars, pageVars, saveVars>>
    /\ pc = "initial"
    /\ raised' = TRUE
    /\ calls' = Append(calls, Call("initial", attempt, expected, total_marks))
    /\ GQ_Except
    /\ partial' = <<>>
    /\ new_items' = <<>>
    /\ cont_shown' = <<>>
    /\ UNCHANGED <<fn, expected, total_marks, last_raw, raw_latest, files>>

GQ_Continuation(c_raw) ==
    LET new == GQ_NewItems(c_raw)
    IN
    /\ fn = "gq"
    /\ UNCHANGED <<gradeVars, parseVars, pageVars, saveVars>>
    /\ pc = "cont"
    /\ new_items' = new
    /\ raw_latest' = (c_raw = last_raw)
    /\ IF new # <<>>
       THEN /\ result' = Some(Take(Combined(partial, new), expected))
            /\ pc' = "returned"
            /\ UNCHANGED <<attempt, msgs>>
       ELSE GQ_NextAttempt
    /\ UNCHANGED <<fn, expected, total_marks, last_raw, partial, calls, raised,
                   caught, cont_shown, files>>

\* generate_content raises on the continuation call
GQ_ContinuationRaises ==
    /\ fn = "gq"
    /\ UNCHANGED <<gradeVars, parseVars, pageVars, saveVars>>
    /\ pc = "cont"
    /\ raised' = TRUE
    /\ GQ_Except
    /\ UNCHANGED <<fn, expected, total_marks, last_raw, partial, new_items, calls,
                   raw_latest, cont_shown, files>>

\* test_<max+1>.json
NextFileNumber(fs) ==
    IF fs = {} THEN 1
    ELSE 1 + (CHOOSE n \in {f.n : f \in fs} : \A f \in fs : f.n <= n)

\* "Generate Test" handler, lines 210-224: `if data:` then save
GQ_SaveTest ==
    /\ fn = "gq"
    /\ UNCHANGED <<gradeVars, parseVars, pageVars, saveVars>>
    /\ pc = "returned"
    /\ pc' = "end"
    /\ IF result.items # <<>>
       THEN /\ files' = files \cup {[n |-> NextFileNumber(files), data |-> result.items]}
            /\ msgs' = Append(msgs, Msg("success_saved", NextFileNumber(files), 0))
       ELSE UNCHANGED <<files, msgs>>
    /\ UNCHANGED <<fn, expected, total_marks, attempt, last_raw, partial, new_items,
                   result, calls, raised, caught, raw_latest, cont_shown>>

\* ---------------------------------------------------- call_gemini_api
\* lines 260-272: `parsed` after the direct parse and the repaired parse;
\* json.loads(repaired) may yield any JSON value
CGA_Parsed(raw) ==
    LET direct == _try_parse(raw)
        rep == JsonLoads(repair_json_candidate(raw))
    IN IF ~direct.none THEN [none |-> FALSE, kind |-> "list", items |-> direct.items]
       ELSE IF rep.ok THEN [none |-> FALSE, kind |-> rep.kind, items |-> rep.items]
       ELSE [none |-> TRUE, kind |-> "none", items |-> <<>>]

\* lines 261-262 and 269-270: a list of expected_count elements is returned
CGA_ReturnsParsed(parsed, exp) ==
    ~parsed.none /\ parsed.kind = "list" /\ Len(parsed.items) = exp

\* line 275: len(parsed) raises TypeError when parsed is a number
CGA_LenRaises(parsed) == ~parsed.none /\ parsed.kind = "scalar"

\* len(parsed): elements of a list, keys of an object
CGA_Len(parsed) == IF parsed.kind = "dict" THEN 3 ELSE Len(parsed.items)

\* line 275
CGA_ScansPartial(parsed, exp) == parsed.none \/ CGA_Len(parsed) < exp

\* line 277
CGA_WantsContinuation(part, exp) == part # <<>> /\ Len(part) < exp

\* lines 299-301
CGA_NewItems(cont_raw) ==
    LET d == _try_parse(cont_raw)
    IN IF d.none THEN _parse_partial_objects(cont_raw) ELSE d.items

\* lines 317-322 after a failed attempt
CGA_NextAttempt ==
    /\ attempt' = attempt + 1
    /\ IF LoopContinues(attempt + 1)
       THEN /\ pc' = "initial"
            /\ UNCHANGED msgs
       ELSE /\ pc' = "returned"
            /\ msgs' = Append(msgs, Msg("error_incomplete", 0, 0))
    /\ result' = None

\* lines 314-322 after an exception inside the try block
CGA_Except ==
    /\ caught' = TRUE
    /\ pc' = AfterExcept(attempt).pc
    /\ attempt' = AfterExcept(attempt).attempt
    /\ msgs' = IF AfterExcept(attempt).pc = "returned"
               THEN msgs \o <<Msg("error_call_failed", 0, 0),
                               Msg("error_incomplete", 0, 0)>>
               ELSE Append(msgs, Msg("error_call_failed", 0, 0))
    /\ result' = None

CGA_Initial(raw) ==
    LET parsed == CGA_Parsed(raw)
        part == _parse_partial_objects(raw)
        initial == Call("initial", attempt, expected, total_marks)
    IN
    /\ fn = "cga"
    /\ UNCHANGED <<gradeVars, parseVars, pageVars, saveVars>>
    /\ pc = "initial"
    /\ last_raw' = raw
    /\ raw_latest' = TRUE
    /\ new_items' = <<>>
    /\ cont_shown' = CGA_ContShown(part)
    /\ UNCHANGED <<fn, expected, total_marks, raised, files>>
    /\ IF CGA_ReturnsParsed(parsed, expected)
       THEN /\ result' = Some(parsed.items)
            /\ partial' = <<>>
            /\ pc' = "returned"
            /\ calls' = Append(calls, initial)
            /\ UNCHANGED <<attempt, msgs, caught>>
       ELSE IF CGA_LenRaises(parsed)
       THEN /\ partial' = <<>>
            /\ CGA_Except
            /\ calls' = Append(calls, initial)
       ELSE IF ~CGA_ScansPartial(parsed, expected)
       THEN /\ partial' = <<>>
            /\ CGA_NextAttempt
            /\ calls' = Append(calls, initial)
            /\ UNCHANGED caught
       ELSE /\ partial' = part
            /\ IF CGA_WantsContinuation(part, expected)
               THEN IF UsedRaises(part)
                    THEN /\ CGA_Except
                         /\ calls' = Append(calls, initial)
                    ELSE /\ pc' = "cont"
                         /\ msgs' = Append(msgs,
                                           Msg("info_partial", Len(part), expected))
                         /\ calls' = calls \o
                              <<initial,
                                ContinuationCall(attempt, expected, total_marks, part)>>
                         /\ UNCHANGED <<attempt, result, caught>>
               ELSE IF part # <<>> /\ Len(part) = expected
               THEN /\ result' = Some(part)
                    /\ pc' = "returned"
                    /\ calls' = Append(calls, initial)
                    /\ UNCHANGED <<attempt, msgs, caught>>
               ELSE /\ CGA_NextAttempt
                    /\ calls' = Append(calls, initial)
                    /\ UNCHANGED caught

\* generate_content raises on the initial call of an attempt
CGA_InitialRaises ==
    /\ fn = "cga"
    /\ UNCHANGED <<gradeVars, parseVars, pageVars, saveVars>>
    /\ pc = "initial"
    /\ raised' = TRUE
    /\ calls' = Append(calls, Call("initial", attempt, expected, total_marks))
    /\ CGA_Except
    /\ partial' = <<>>
    /\ new_items' = <<>>
    /\ cont_shown' = <<>>
    /\ UNCHANGED <<fn, expected, total_marks, last_raw, raw_latest, files>>

CGA_Continuation(cont_raw) ==
    LET new == CGA_NewItems(cont_raw)
        combined == Combined(partial, new)
    IN
    /\ fn = "cga"
    /\ UNCHANGED <<gradeVars, parseVars, pageVars, saveVars>>
    /\ pc = "cont"
    /\ new_items' = new
    /\ raw_latest' = (cont_raw = last_raw)
    /\ IF new # <<>>
       THEN IF Len(combined) >= expected
            THEN /\ result' = Some(Take(combined, expected))
                 /\ pc' = "returned"
                 /\ UNCHANGED <<attempt, msgs>>
            ELSE /\ result' = Some(combined)
                 /\ pc' = "returned"
                 /\ msgs' = Append(msgs, Msg("warn_short", Len(combined), expected))
                 /\ UNCHANGED attempt
       ELSE CGA_NextAttempt
    /\ UNCHANGED <<fn, expected, total_marks, last_raw, partial, calls, raised,
                   caught, cont_shown, files>>

\* generate_content raises on the continuation call
CGA_ContinuationRaises ==
    /\ fn = "cga"
    /\ UNCHANGED <<gradeVars, parseVars, pageVars, saveVars>>
    /\ pc = "cont"
    /\ raised' = TRUE
    /\ CGA_Except
    /\ UNCHANGED <<fn, expected, total_marks, last_raw, partial, new_items, calls,
                   raw_latest, cont_shown, files>>

\* generate_and_save_test lines 364-370 with save_test_file
CGA_SaveTest ==
    /\ fn = "cga"
    /\ UNCHANGED <<gradeVars, parseVars, pageVars, saveVars>>
    /\ pc = "returned"
    /\ pc' = "end"
    /\ IF result.items = <<>>
       THEN UNCHANGED <<files, msgs>>
       ELSE IF ~AllDicts(result.items)
       THEN /\ msgs' = Append(msgs, Msg("error_invalid_structure", 0, 0))
            /\ UNCHANGED files
       ELSE /\ files' = files \cup {[n |-> NextFileNumber(files), data |-> result.items]}
            /\ msgs' = Append(msgs, Msg("success_saved", NextFileNumber(files), 0))
    /\ UNCHANGED <<fn, expected, total_marks, attempt, last_raw, partial, new_items,
                   result, calls, raised, caught, raw_latest, cont_shown>>

Init ==
    /\ fn \in {"gq", "cga"}
    /\ expected \in 1..MaxExpected
    /\ total_marks \in 1..MaxTotal
    /\ pc = "initial"
    /\ attempt = 0
    /\ last_raw = <<>>
    /\ partial = <<>>
    /\ new_items = <<>>
    /\ result = None
    /\ calls = <<>>
    /\ msgs = <<>>
    /\ raised = FALSE
    /\ caught = FALSE
    /\ raw_latest = TRUE
    /\ cont_shown = <<>>
    /\ files = {}
    /\ current_test = <<>>
    /\ student_answers = <<>>
    /\ gpc = "idle"
    /\ gi = 0
    /\ g_calls = 0
    /\ g_raw = <<>>
    /\ scores = <<>>
    /\ feedback_list = <<>>
    /\ total_earned = 0
    /\ final = [present |-> FALSE, final_scores |-> <<>>, total_earned |-> 0,
                ai_feedback |-> <<>>]
    /\ current_qs = <<>>
    /\ graded_of = NotGraded
    /\ ParseIdle
    /\ PageIdle
    /\ SaveIdle

Next ==
    \/ \E raw \in Texts : GQ_Initial(raw)
    \/ GQ_InitialRaises
    \/ \E c_raw \in Texts : GQ_Continuation(c_raw)
    \/ GQ_ContinuationRaises
    \/ GQ_SaveTest
    \/ \E raw \in Texts : CGA_Initial(raw)
    \/ CGA_InitialRaises
    \/ \E cont_raw \in Texts : CGA_Continuation(cont_raw)
    \/ CGA_ContinuationRaises
    \/ CGA_SaveTest

Spec == Init /\ [][Next]_vars

\* responses that take every branch of the two controllers: complete,
\* truncated and unclosed arrays, a number, prose, a non-finite "marks"
LiveTexts ==
    {ValidArray(os) : os \in WrapSeqs}
    \cup {Truncated(os) : os \in WrapSeqs}
    \cup {<<"[">> \o Join(os, <<"nl">>) : os \in WrapSeqs}
    \cup {<<"42">>, <<"prose">>, <<"[", "oInf", "]">>}

LiveNext ==
    \/ \E raw \in LiveTexts : GQ_Initial(raw)
    \/ GQ_InitialRaises
    \/ \E c_raw \in LiveTexts : GQ_Continuation(c_raw)
    \/ GQ_ContinuationRaises
    \/ GQ_SaveTest
    \/ \E raw \in LiveTexts : CGA_Initial(raw)
    \/ CGA_InitialRaises
    \/ \E cont_raw \in LiveTexts : CGA_Continuation(cont_raw)
    \/ CGA_ContinuationRaises
    \/ CGA_SaveTest

\* every generate_content call comes back, with a response or an exception,
\* and the script then runs on to its return and to the caller's save: a
\* step of the program that stays possible is eventually taken (LiveNext is
\* enabled in the same states as Next)
LiveSpec == Init /\ [][LiveNext]_vars /\ WF_vars(Next)

\* ------------------------------------------------ the AI grading pass
\* (src/pages/1_Student_Test.py, the "Grade with AI" handler)

GradingTexts ==
    {<<g>> : g \in GObjSet}
    \cup {<<"fence", "nl", g, "nl", "fence">> : g \in {"g15"}}
    \cup {<<"prose", "ws", g>> : g \in {"gNeg"}}
    \cup {<<"[", g, "]">> : g \in {"g15", "gNeg"}}
    \cup {<<>>, <<"{}">>, <<"42">>, <<"prose">>, <<"pm7">>, <<"prose", "ws", "{tr">>}

\* lines 252-257: strip, then drop the fence lines
G_ResponseText(text) ==
    LET t == Strip(text)
    IN IF \E i \in 1..Len(t) : t[i] = "fence"
       THEN JoinLines(SelectSeq(SplitLines(t), NotFenceLine))
       ELSE t

\* the first / the last token of s that belongs to S; 0 when there is none
FirstIn(s, S) ==
    IF \E i \in 1..Len(s) : s[i] \in S
    THEN CHOOSE i \in 1..Len(s) : s[i] \in S /\ \A j \in 1..(i - 1) : s[j] \notin S
    ELSE 0

LastIn(s, S) ==
    IF \E i \in 1..Len(s) : s[i] \in S
    THEN CHOOSE i \in 1..Len(s) : s[i] \in S /\ \A j \in (i + 1)..Len(s) : s[j] \notin S
    ELSE 0

\* tokens whose text begins with '{' / ends with '}'
OpensBrace == ObjSet \cup SqSet \cup GObjSet \cup {"{}", "{tr"}
ClosesBrace == ObjSet \cup SqSet \cup GObjSet \cup {"{}"}

\* lines 260-274: json.loads of the text, else of the text between the
\* first '{' and the last '}'
G_Result(response_text) ==
    LET direct == JsonLoads(response_text)
        start == FirstIn(response_text, OpensBrace)
        end == LastIn(response_text, ClosesBrace)
    IN IF direct.ok THEN direct
       ELSE IF start # 0 /\ end # 0 /\ end >= start
       THEN JsonLoads(SubSeq(response_text, start, end))
       ELSE ParseFail

\* a clamp without the upper bound
Clamp_mut(m, max_marks) == IF m.kind = "num" /\ m.v > 0 THEN m.v ELSE 0

\* min(max(0, float(marks)), max_marks), in tenths; max(0, nan) is 0
Clamp(m, max_marks) ==
    LET lower == IF m.kind = "inf" THEN m
                 ELSE IF m.kind = "num" /\ m.v > 0 THEN m
                 ELSE [kind |-> "num", v |-> 0]
    IN IF lower.kind = "inf" THEN 10 * max_marks
       ELSE IF 10 * max_marks < lower.v THEN 10 * max_marks
       ELSE lower.v

\* lines 276-294 for one response; float() of an unusable value raises and
\* the except branch of lines 296-300 stores 0
G_Outcome(text, max_marks) ==
    LET response_text == G_ResponseText(text)
        res == G_Result(response_text)
        hit == FirstIn(response_text, {t \in GObjSet \cup {"pm7"} : RegexMarksOf(t) # -1})
    IN IF res.ok /\ res.kind = "dict" /\ res.items[1] # "{}"
       THEN IF GMarksOf(res.items[1]).kind = "bad"
            THEN [score |-> 0, earned |-> 0, fb |-> "grading_error"]
            ELSE [score |-> Clamp(GMarksOf(res.items[1]), max_marks),
                  earned |-> Clamp(GMarksOf(res.items[1]), max_marks),
                  fb |-> IF res.items[1] = "gNoFb" THEN "graded_by_ai"
                         ELSE "response_feedback"]
       ELSE IF hit # 0
       THEN [score |-> Clamp([kind |-> "num", v |-> RegexMarksOf(response_text[hit])],
                             max_marks),
             earned |-> Clamp([kind |-> "num", v |-> RegexMarksOf(response_text[hit])],
                              max_marks),
             fb |-> "response_text"]
       ELSE [score |-> 0, earned |-> 0, fb |-> "unable_to_parse"]

\* the loaded test and the answers a grading is computed from
GradedNow == [present |-> TRUE, qs |-> current_qs, marks |-> current_test,
              answers |-> student_answers]

\* a pass that starts without resetting the running total
G_Start_mut ==
    /\ gpc \in {"idle", "graded"}
    /\ g_calls < MaxGradeCalls
    /\ gpc' = "grading"
    /\ gi' = 1
    /\ scores' = <<>>
    /\ feedback_list' = <<>>
    /\ g_raw' = <<>>
    /\ UNCHANGED <<current_test, student_answers, g_calls, final, total_earned,
                   current_qs, graded_of>>
    /\ UNCHANGED <<genVars, parseVars, pageVars, saveVars>>

\* lines 202-205: the button is pressed on a submitted test
G_Start ==
    /\ gpc \in {"idle", "graded"}
    /\ g_calls < MaxGradeCalls
    /\ gpc' = "grading"
    /\ gi' = 1
    /\ scores' = <<>>
    /\ feedback_list' = <<>>
    /\ total_earned' = 0
    /\ g_raw' = <<>>
    /\ UNCHANGED <<current_test, student_answers, g_calls, final, current_qs,
                   graded_of>>
    /\ UNCHANGED <<genVars, parseVars, pageVars, saveVars>>

\* lines 208-294: one question whose model call returns `text`
G_Question(text) ==
    /\ gpc = "grading"
    /\ gi <= Len(current_test)
    /\ gi' = gi + 1
    /\ IF Blank(student_answers[gi])
       THEN /\ scores' = Append(scores, 0)
            /\ feedback_list' = Append(feedback_list, "no_answer")
            /\ UNCHANGED <<total_earned, g_raw, g_calls>>
       ELSE /\ g_calls < MaxGradeCalls
            /\ g_calls' = g_calls + 1
            /\ g_raw' = text
            /\ scores' = Append(scores, G_Outcome(text, current_test[gi]).score)
            /\ feedback_list' = Append(feedback_list, G_Outcome(text, current_test[gi]).fb)
            /\ total_earned' = total_earned + G_Outcome(text, current_test[gi]).earned
    /\ UNCHANGED <<current_test, student_answers, gpc, final, current_qs,
                   graded_of>>
    /\ UNCHANGED <<genVars, parseVars, pageVars, saveVars>>

\* an exception that leaves the loop instead of being caught per question
G_QuestionRaises_mut ==
    /\ gpc = "grading"
    /\ gi <= Len(current_test)
    /\ ~Blank(student_answers[gi])
    /\ g_calls < MaxGradeCalls
    /\ g_calls' = g_calls + 1
    /\ gi' = Len(current_test) + 1
    /\ scores' = Append(scores, 0)
    /\ feedback_list' = Append(feedback_list, "grading_error")
    /\ UNCHANGED <<current_test, student_answers, gpc, g_raw, total_earned,
                   final, current_qs, graded_of>>
    /\ UNCHANGED <<genVars, parseVars, pageVars, saveVars>>

\* lines 296-300: the model call of one question raises
G_QuestionRaises ==
    /\ gpc = "grading"
    /\ gi <= Len(current_test)
    /\ ~Blank(student_answers[gi])
    /\ g_calls < MaxGradeCalls
    /\ g_calls' = g_calls + 1
    /\ gi' = gi + 1
    /\ scores' = Append(scores, 0)
    /\ feedback_list' = Append(feedback_list, "grading_error")
    /\ UNCHANGED <<current_test, student_answers, gpc, g_raw, total_earned,
                   final, current_qs, graded_of>>
    /\ UNCHANGED <<genVars, parseVars, pageVars, saveVars>>

\* lines 302-307: the results go to the session state
G_Store ==
    /\ gpc = "grading"
    /\ gi > Len(current_test)
    /\ gpc' = "graded"
    /\ final' = [present |-> TRUE, final_scores |-> scores,
                 total_earned |-> total_earned, ai_feedback |-> feedback_list]
    /\ graded_of' = GradedNow
    /\ UNCHANGED <<current_test, student_answers, gi, g_calls, g_raw, scores,
                   feedback_list, total_earned, current_qs>>
    /\ UNCHANGED <<genVars, parseVars, pageVars, saveVars>>

\* a submitted test: every question answered (lines 128-141)
GradeInit ==
    /\ fn = "gq"
    /\ expected = 1
    /\ total_marks = 1
    /\ pc = "end"
    /\ attempt = 0
    /\ last_raw = <<>>
    /\ partial = <<>>
    /\ new_items = <<>>
    /\ result = None
    /\ calls = <<>>
    /\ msgs = <<>>
    /\ raised = FALSE
    /\ caught = FALSE
    /\ raw_latest = TRUE
    /\ cont_shown = <<>>
    /\ files = {}
    /\ current_test \in UNION {[1..n -> -1..MaxMarks] : n \in 1..MaxQuestions}
    /\ student_answers = [i \in 1..Len(current_test) |-> "a"]
    /\ gpc = "idle"
    /\ gi = 0
    /\ g_calls = 0
    /\ g_raw = <<>>
    /\ scores = <<>>
    /\ feedback_list = <<>>
    /\ total_earned = 0
    /\ final = [present |-> FALSE, final_scores |-> <<>>, total_earned |-> 0,
                ai_feedback |-> <<>>]
    /\ current_qs = [i \in 1..Len(current_test) |-> ObjPool[i]]
    /\ graded_of = NotGraded
    /\ test_submitted = TRUE
    /\ student_name = "n"
    /\ answer_history = {[q |-> current_qs[i], a |-> "a"] : i \in 1..Len(current_test)}
    /\ ParseIdle
    /\ SaveIdle

GradeNext ==
    \/ G_Start
    \/ \E text \in GradingTexts : G_Question(text)
    \/ G_QuestionRaises
    \/ G_Store

GradeSpec == GradeInit /\ [][GradeNext]_vars

\* ------------------------------------------- the JSON helpers on one text
\* (_try_json, _partial_objects, _try_parse, repair_json_candidate)

\* the records an array may hold, and their single-quoted writings
ParsePool == <<"o1", "o2", "o3", "oInf", "oStr", "oQ", "oLs">>
SqParsePool == <<"s1", "s2", "s3", "sQ">>

ParseSeqs ==
    {PickInOrder(ParsePool, S) :
        S \in {T \in SUBSET (1..Len(ParsePool)) : Cardinality(T) <= MaxObjs}}

SqParseSeqs ==
    {PickInOrder(SqParsePool, S) :
        S \in {T \in SUBSET (1..Len(SqParsePool)) : T # {} /\ Cardinality(T) <= MaxObjs}}

\* the fenced blocks around a text T: each marker on a line of its own, or on
\* the line of the array text (a language tag is part of the marker)
FenceWraps == {"own_lines", "same_line", "open_same_line", "close_same_line"}

Wrapped(w, T) ==
    CASE w = "own_lines" -> <<"fence", "nl">> \o T \o <<"nl", "fence">>
      [] w = "same_line" -> <<"fence", "ws">> \o T \o <<"ws", "fence">>
      [] w = "open_same_line" -> <<"fence", "ws">> \o T \o <<"nl", "fence">>
      [] w = "close_same_line" -> <<"fence", "nl">> \o T \o <<"ws", "fence">>

\* a response text arrives: an array of records, bare or after a line of
\* prose, or an array written with single quotes
ParseInit ==
    /\ fn = "gq"
    /\ expected = 1
    /\ total_marks = 1
    /\ pc = "end"
    /\ attempt = 0
    /\ last_raw = <<>>
    /\ partial = <<>>
    /\ new_items = <<>>
    /\ result = None
    /\ calls = <<>>
    /\ msgs = <<>>
    /\ raised = FALSE
    /\ caught = FALSE
    /\ raw_latest = TRUE
    /\ cont_shown = <<>>
    /\ files = {}
    /\ current_test = <<>>
    /\ student_answers = <<>>
    /\ gpc = "idle"
    /\ gi = 0
    /\ g_calls = 0
    /\ g_raw = <<>>
    /\ scores = <<>>
    /\ feedback_list = <<>>
    /\ total_earned = 0
    /\ final = [present |-> FALSE, final_scores |-> <<>>, total_earned |-> 0,
                ai_feedback |-> <<>>]
    /\ current_qs = <<>>
    /\ graded_of = NotGraded
    /\ PageIdle
    /\ SaveIdle
    /\ p_kind \in {"valid", "prose", "single"}
    /\ p_objs \in (IF p_kind = "single" THEN SqParseSeqs ELSE ParseSeqs)
    /\ p_base = IF p_kind = "prose" THEN <<"prose", "nl">> \o ValidArray(p_objs)
                ELSE ValidArray(p_objs)
    /\ p_wrap = "none"
    /\ p_text = p_base
    /\ p_out = NoOut
    /\ ppc = "text"

\* the response wraps the text in a fenced block
P_Wrap(w) ==
    /\ ppc = "text"
    /\ p_wrap' = w
    /\ p_text' = Wrapped(w, p_base)
    /\ ppc' = "wrapped"
    /\ UNCHANGED <<p_kind, p_objs, p_base, p_out>>
    /\ UNCHANGED <<genVars, gradeVars, pageVars, saveVars>>

\* the helpers run on the text: the extractor of generate_questions (lines
\* 151-155), the direct parses, and the repaired parse of call_gemini_api
\* (lines 265-267)
P_Extract ==
    /\ ppc \in {"text", "wrapped"}
    /\ p_out' = [extract |-> GQ_Parsed(p_text),
                 try_json |-> _try_json(p_text),
                 try_parse |-> _try_parse(p_text),
                 repaired |-> JsonLoads(repair_json_candidate(p_text))]
    /\ ppc' = "done"
    /\ UNCHANGED <<p_kind, p_objs, p_base, p_wrap, p_text>>
    /\ UNCHANGED <<genVars, gradeVars, pageVars, saveVars>>

ParseNext ==
    \/ \E w \in FenceWraps : P_Wrap(w)
    \/ P_Extract

ParseSpec == ParseInit /\ [][ParseNext]_vars

\* -------------------------------- the Student Test page in one session
\* (src/pages/1_Student_Test.py; Gemini is initialised)

\* the test files in the data directory: test_k.json holds the first k
\* questions, so test files share questions
PageFiles == {[n |-> k, data |-> SubSeq(ObjPool, 1, k)] : k \in 1..MaxQuestions}

\* what a text area can hold: nothing, white space only, an answer
PageAnswers == {"", "ws", "a"}

\* the marks a grader sets on a slider of the manual grading form (0 or 1 mark)
ManualMarks == {0, 1}

\* grading responses: partial credit with feedback, unparsable
PageGradingTexts == {<<"gHalf">>, <<"prose">>}

NoFinal == [present |-> FALSE, final_scores |-> <<>>, total_earned |-> 0,
            ai_feedback |-> <<>>]

\* answer_history.get(question_hash, "")
HistGet(h, q) ==
    IF \E e \in h : e.q = q THEN (CHOOSE e \in h : e.q = q).a ELSE ""

\* answer_history[question_hash] = student_answer
HistPut(h, q, a) == {e \in h : e.q # q} \cup {[q |-> q, a |-> a]}

\* lines 94-122: the form writes every non-blank answer into the history,
\* question by question
RECURSIVE FormHistory(_, _, _, _)
FormHistory(h, qs, ans, i) ==
    IF i > Len(qs) THEN h
    ELSE FormHistory(IF Blank(ans[i]) THEN h ELSE HistPut(h, qs[i], ans[i]),
                     qs, ans, i + 1)

\* a check that takes white space for an answer
Unanswered_mut(ans) == {i \in 1..Len(ans) : ans[i] = ""}

\* lines 133-136: the questions whose answer .strip() leaves empty
Unanswered(ans) == {i \in 1..Len(ans) : Blank(ans[i])}

PageInit ==
    /\ fn = "gq"
    /\ expected = 1
    /\ total_marks = 1
    /\ pc = "end"
    /\ attempt = 0
    /\ last_raw = <<>>
    /\ partial = <<>>
    /\ new_items = <<>>
    /\ result = None
    /\ calls = <<>>
    /\ msgs = <<>>
    /\ raised = FALSE
    /\ caught = FALSE
    /\ raw_latest = TRUE
    /\ cont_shown = <<>>
    /\ files = PageFiles
    /\ current_test = <<>>
    /\ student_answers = <<>>
    /\ gpc = "idle"
    /\ gi = 0
    /\ g_calls = 0
    /\ g_raw = <<>>
    /\ scores = <<>>
    /\ feedback_list = <<>>
    /\ total_earned = 0
    /\ final = NoFinal
    /\ current_qs = <<>>
    /\ graded_of = NotGraded
    /\ ParseIdle
    /\ PageIdle
    /\ SaveIdle

\* the locals of the grading handler do not outlive the page it ran on
GradingLocalsGone ==
    /\ gpc' = "idle"
    /\ gi' = 0
    /\ g_raw' = <<>>
    /\ scores' = <<>>
    /\ feedback_list' = <<>>
    /\ total_earned' = 0

\* lines 42-44: a non-empty name is typed
P_EnterName ==
    /\ gpc # "grading"
    /\ student_name = ""
    /\ student_name' = "n"
    /\ UNCHANGED <<test_submitted, answer_history>>
    /\ UNCHANGED <<genVars, gradeVars, parseVars, saveVars>>

\* lines 47-53: the history is emptied; st.rerun() then draws the form of an
\* unsubmitted test again, which writes its non-blank answers back (121-122)
P_ClearHistory ==
    /\ gpc # "grading"
    /\ answer_history # {}
    /\ answer_history' = IF current_qs # <<>> /\ ~test_submitted
                         THEN FormHistory({}, current_qs, student_answers, 1)
                         ELSE {}
    /\ UNCHANGED <<test_submitted, student_name>>
    /\ UNCHANGED <<genVars, gradeVars, parseVars, saveVars>>

\* lines 71-78: the selected file is loaded; st.rerun() then draws the form,
\* each text area starting from the history (lines 104-118)
P_LoadTest(n) ==
    /\ gpc # "grading"
    /\ \E f \in files :
         /\ f.n = n
         /\ current_qs' = f.data
         /\ current_test' = [i \in 1..Len(f.data) |-> MarksOf(f.data[i]).v]
         /\ student_answers' = [i \in 1..Len(f.data) |-> HistGet(answer_history, f.data[i])]
    /\ test_submitted' = FALSE
    /\ GradingLocalsGone
    /\ UNCHANGED <<g_calls, final, graded_of>>
    /\ UNCHANGED <<student_name, answer_history>>
    /\ UNCHANGED <<genVars, parseVars, saveVars>>

\* lines 93-142: "Submit Test" is pressed with the answers `ans` in the text
\* areas
P_SubmitForm(ans) ==
    /\ gpc # "grading"
    /\ current_qs # <<>>
    /\ ~test_submitted
    /\ Len(ans) = Len(current_qs)
    /\ student_answers' = ans
    /\ answer_history' = FormHistory(answer_history, current_qs, ans, 1)
    /\ test_submitted' = (student_name # "" /\ Unanswered(ans) = {})
    /\ UNCHANGED <<current_test, gpc, gi, g_calls, g_raw, scores, feedback_list,
                   total_earned, final, current_qs, graded_of>>
    /\ UNCHANGED student_name
    /\ UNCHANGED <<genVars, parseVars, saveVars>>

\* line 202: "Grade with AI" is on the page of a submitted test only
P_GradeWithAI ==
    /\ current_qs # <<>>
    /\ test_submitted
    /\ G_Start

\* lines 311-334: "Calculate Final Score" with the scores typed in, each
\* number input ranging over 0..max_marks
P_ManualGrade(sc) ==
    /\ gpc # "grading"
    /\ current_qs # <<>>
    /\ test_submitted
    /\ Len(sc) = Len(current_test)
    /\ \A i \in 1..Len(sc) : sc[i] <= current_test[i]
    /\ final' = [present |-> TRUE,
                 final_scores |-> [i \in 1..Len(sc) |-> 10 * sc[i]],
                 total_earned |-> 10 * SumOf(sc),
                 ai_feedback |-> final.ai_feedback]
    /\ graded_of' = GradedNow
    /\ UNCHANGED <<current_test, student_answers, gpc, gi, g_calls, g_raw, scores,
                   feedback_list, total_earned, current_qs>>
    /\ UNCHANGED <<genVars, parseVars, pageVars, saveVars>>

\* a reset that leaves the results of the test in the session
P_TakeAnother_mut ==
    /\ gpc # "grading"
    /\ current_qs # <<>>
    /\ test_submitted
    /\ current_test' = <<>>
    /\ current_qs' = <<>>
    /\ student_answers' = <<>>
    /\ test_submitted' = FALSE
    /\ GradingLocalsGone
    /\ UNCHANGED <<g_calls, final, graded_of>>
    /\ UNCHANGED <<student_name, answer_history>>
    /\ UNCHANGED <<genVars, parseVars, saveVars>>

\* lines 412-422: "Take Another Test"
P_TakeAnother ==
    /\ gpc # "grading"
    /\ current_qs # <<>>
    /\ test_submitted
    /\ current_test' = <<>>
    /\ current_qs' = <<>>
    /\ student_answers' = <<>>
    /\ test_submitted' = FALSE
    /\ final' = NoFinal
    /\ graded_of' = NotGraded
    /\ GradingLocalsGone
    /\ UNCHANGED g_calls
    /\ UNCHANGED <<student_name, answer_history>>
    /\ UNCHANGED <<genVars, parseVars, saveVars>>

\* lines 424-436: "Keep Answers & Take New Test"
P_KeepAnswers ==
    /\ gpc # "grading"
    /\ current_qs # <<>>
    /\ test_submitted
    /\ current_test' = <<>>
    /\ current_qs' = <<>>
    /\ student_answers' = <<>>
    /\ test_submitted' = FALSE
    /\ final' = NoFinal
    /\ graded_of' = NotGraded
    /\ GradingLocalsGone
    /\ UNCHANGED g_calls
    /\ UNCHANGED <<student_name, answer_history>>
    /\ UNCHANGED <<genVars, parseVars, saveVars>>

PageNext ==
    \/ P_EnterName
    \/ P_ClearHistory
    \/ \E n \in 1..MaxQuestions : P_LoadTest(n)
    \/ \E ans \in UNION {[1..k -> PageAnswers] : k \in 1..MaxQuestions} :
          P_SubmitForm(ans)
    \/ P_GradeWithAI
    \/ \E text \in PageGradingTexts : G_Question(text)
    \/ G_QuestionRaises
    \/ G_Store
    \/ \E sc \in UNION {[1..k -> ManualMarks] : k \in 1..MaxQuestions} :
          P_ManualGrade(sc)
    \/ P_TakeAnother
    \/ P_KeepAnswers

PageSpec == PageInit /\ [][PageNext]_vars

\* ------------------------- saving generated tests from several sessions
\* ("Generate Test" handler, 0_Generate_Questions.py lines 209-224, and
\* save_test_file, streamlit_syllabus_app.py lines 325-345).  Streamlit runs
\* the script of each session in a thread of its own, so between the
\* glob.glob of one session and its open(filename, 'w') another session may
\* run its own glob.glob or open.

\* the tests the sessions generate
SaveData == {<<"o1">>, <<"o2">>}

SaveInit ==
    /\ fn = "gq"
    /\ expected = 1
    /\ total_marks = 1
    /\ pc = "end"
    /\ attempt = 0
    /\ last_raw = <<>>
    /\ partial = <<>>
    /\ new_items = <<>>
    /\ result = None
    /\ calls = <<>>
    /\ msgs = <<>>
    /\ raised = FALSE
    /\ caught = FALSE
    /\ raw_latest = TRUE
    /\ cont_shown = <<>>
    /\ files \in {{}, {[n |-> 2, data |-> <<"o3">>]}}
    /\ current_test = <<>>
    /\ student_answers = <<>>
    /\ gpc = "idle"
    /\ gi = 0
    /\ g_calls = 0
    /\ g_raw = <<>>
    /\ scores = <<>>
    /\ feedback_list = <<>>
    /\ total_earned = 0
    /\ final = [present |-> FALSE, final_scores |-> <<>>, total_earned |-> 0,
                ai_feedback |-> <<>>]
    /\ current_qs = <<>>
    /\ graded_of = NotGraded
    /\ ParseIdle
    /\ PageIdle
    /\ SaveIdle

\* the saves under way or done
SavesBegun == Len(written) + Cardinality({t \in Sessions : savers[t].pc # "idle"})

\* line 209-210: the controller returned `data`, a non-empty list, to session s
S_Generated(s, data) ==
    /\ savers[s].pc = "idle"
    /\ SavesBegun < MaxSaves
    /\ savers' = [savers EXCEPT ![s] = [pc |-> "data", data |-> data, num |-> 0]]
    /\ UNCHANGED <<written, files>>
    /\ UNCHANGED <<fn, expected, total_marks, pc, attempt, last_raw, partial,
                   new_items, result, calls, msgs, raised, caught, raw_latest,
                   cont_shown>>
    /\ UNCHANGED <<gradeVars, parseVars, pageVars>>

\* lines 212-218: glob.glob("test_*.json") and the file name test_<max+1>.json
S_Glob(s) ==
    /\ savers[s].pc = "data"
    /\ savers' = [savers EXCEPT ![s].pc = "globbed", ![s].num = NextFileNumber(files)]
    /\ UNCHANGED <<written, files>>
    /\ UNCHANGED <<fn, expected, total_marks, pc, attempt, last_raw, partial,
                   new_items, result, calls, msgs, raised, caught, raw_latest,
                   cont_shown>>
    /\ UNCHANGED <<gradeVars, parseVars, pageVars>>

\* lines 219-222: open(filename, 'w') truncates the file if there is one,
\* json.dump writes the test
S_Write(s) ==
    /\ savers[s].pc = "globbed"
    /\ files' = {f \in files : f.n # savers[s].num}
                    \cup {[n |-> savers[s].num, data |-> savers[s].data]}
    /\ written' = Append(written, [s |-> s, n |-> savers[s].num,
                                   data |-> savers[s].data, ok |-> TRUE])
    /\ savers' = [savers EXCEPT ![s] = IdleSaver]
    /\ UNCHANGED <<fn, expected, total_marks, pc, attempt, last_raw, partial,
                   new_items, result, calls, msgs, raised, caught, raw_latest,
                   cont_shown>>
    /\ UNCHANGED <<gradeVars, parseVars, pageVars>>

\* lines 223-224: open raises, st.error reports it, nothing is written
S_WriteFails(s) ==
    /\ savers[s].pc = "globbed"
    /\ savers' = [savers EXCEPT ![s] = IdleSaver]
    /\ written' = Append(written, [s |-> s, n |-> savers[s].num,
                                   data |-> savers[s].data, ok |-> FALSE])
    /\ UNCHANGED files
    /\ UNCHANGED <<fn, expected, total_marks, pc, attempt, last_raw, partial,
                   new_items, result, calls, msgs, raised, caught, raw_latest,
                   cont_shown>>
    /\ UNCHANGED <<gradeVars, parseVars, pageVars>>

SaveNext ==
    \/ \E s \in Sessions, data \in SaveData : S_Generated(s, data)
    \/ \E s \in Sessions : S_Glob(s)
    \/ \E s \in Sessions : S_Write(s)
    \/ \E s \in Sessions : S_WriteFails(s)

SaveSpec == SaveInit /\ [][SaveNext]_vars

\* ================================================================ claims
Returned == pc \in {"returned", "end"}

Last(s) == s[Len(s)]

IsPrefix(p, s) == Len(p) <= Len(s) /\ \A i \in 1..Len(p) : s[i] = p[i]

\* the records recovered from an initial response: the direct parse, or the
\* partial-object scan when the direct parse yields nothing
Recovered(f, raw) ==
    IF f = "gq" THEN GQ_Parsed(raw)
    ELSE LET d == _try_parse(raw)
         IN IF d.items # <<>> THEN d.items ELSE _parse_partial_objects(raw)

\* every element is a record with an integer "marks"
AllIntMarks(items) ==
    \A i \in 1..Len(items) : items[i] \in ObjSet /\ MarksOf(items[i]).kind = "int"

IsRecordToken(t) == t \in ObjSet

\* the records written in a response text, in order
RecordsIn(raw) == SelectSeq([i \in 1..Len(raw) |-> Requote(raw[i])], IsRecordToken)

\* C1: in generate_questions, when the records recovered from an attempt's
\* initial response (direct parse, or the scan when the direct parse yields
\* nothing) number exactly `expected`, exactly those records are returned
\* and the initial call of that attempt is the last model call.
C1_ExactCountReturned ==
    (fn = "gq" /\ partial # <<>> /\ Len(partial) = expected)
        => /\ Returned
           /\ result = Some(partial)
           /\ Last(calls) = Call("initial", attempt, expected, total_marks)

\* C2: in generate_questions, when the initial response yields K < expected
\* records and the continuation response yields exactly expected - K
\* records, the value returned is the K initial records followed by the
\* new records, expected records in all.
C2_ContinuationCompletes ==
    (fn = "gq" /\ Len(partial) < expected
        /\ Len(new_items) = expected - Len(partial))
        => /\ Returned
           /\ ~result.none
           /\ result.items = partial \o new_items
           /\ Len(result.items) = expected

W_C2 ==
    /\ fn = "gq"
    /\ Returned
    /\ expected = 3
    /\ Len(partial) = 1
    /\ Len(new_items) = 2
    /\ result.items = partial \o new_items

\* C3: whenever the records recovered from an attempt's initial response
\* number fewer than `expected`, zero included, a continuation request for
\* expected - recovered records is issued in that same attempt.
C3_ShortfallContinues ==
    (calls # <<>> /\ ~raised /\ Len(Recovered(fn, last_raw)) < expected)
        => \E i \in 1..Len(calls) :
              /\ calls[i].kind = "cont"
              /\ calls[i].attempt = Last(calls).attempt
              /\ calls[i].count = expected - Len(Recovered(fn, last_raw))

\* C4: when an attempt recovered at least one record and the combined
\* count after its continuation round is still below `expected` (also when
\* the continuation yields nothing), a non-empty sequence that begins with
\* the recovered records is returned.
C4_PartialNeverDiscarded ==
    (calls # <<>> /\ Last(calls).kind = "cont" /\ pc # "cont" /\ ~raised
        /\ Len(partial) >= 1 /\ Len(partial) + Len(new_items) < expected)
        => /\ Returned
           /\ ~result.none
           /\ result.items # <<>>
           /\ IsPrefix(partial, result.items)

\* C5: for a text that is '[', K complete comma-separated objects and an
\* unterminated object, the incremental scan returns exactly the K
\* complete records in order.
C5_TruncatedScanRecoversAll ==
    \A os \in IntSeqs :
        last_raw = Truncated(os)
            => /\ _partial_objects(last_raw) = os
               /\ _parse_partial_objects(last_raw) = os

\* C6: when generate_questions returns fewer than `expected` records, a
\* message giving the final count against `expected` has been reported.
C6_ShortfallReported ==
    (fn = "gq" /\ Returned /\ ~result.none /\ Len(result.items) < expected)
        => \E i \in 1..Len(msgs) :
              msgs[i].a = Len(result.items) /\ msgs[i].b = expected

\* C7 as stated: every returned sequence of exactly `expected` records has
\* marks summing to exactly total_marks.
C7_MarksSumExact ==
    (Returned /\ ~result.none /\ Len(result.items) = expected)
        => (AllIntMarks(result.items) /\ UsedMarks(result.items) = total_marks)

\* the model kept to the marks it was asked for: without a continuation the
\* response holds `expected` integer-marked records summing to total_marks;
\* with one, total_marks - used covers one mark per missing record and the
\* continuation supplies exactly the records and the marks requested
MarksHonoured ==
    IF new_items = <<>>
    THEN /\ Len(RecordsIn(last_raw)) = expected
         /\ AllIntMarks(RecordsIn(last_raw))
         /\ UsedMarks(RecordsIn(last_raw)) = total_marks
    ELSE /\ Last(calls).kind = "cont"
         /\ Len(new_items) = Last(calls).count
         /\ UsedMarks(new_items) = Last(calls).marks
         /\ total_marks - UsedMarks(partial) >= Last(calls).count

\* C7 (amended): a returned sequence of exactly `expected` integer-marked
\* records sums to total_marks whenever the model kept to the marks it was
\* asked for; the controller itself never checks the sum.
C7_MarksSumWhenHonoured ==
    (Returned /\ ~result.none /\ Len(result.items) = expected
        /\ AllIntMarks(result.items) /\ MarksHonoured)
        => UsedMarks(result.items) = total_marks

W_C7 ==
    /\ Returned
    /\ ~result.none
    /\ expected = 2
    /\ Len(partial) = 1
    /\ Len(new_items) = 1
    /\ AllIntMarks(result.items)
    /\ MarksHonoured
    /\ UsedMarks(result.items) = total_marks

\* C8: in the AI grading pass every stored score of a question with
\* max_marks >= 0 lies in [0, max_marks]; a claimed 15 is stored as
\* max_marks when that is smaller, a claimed -5 as 0, with the response's
\* feedback.
C8_ScoreClamped ==
    /\ \A i \in 1..Len(scores) :
          current_test[i] >= 0
              => (0 <= scores[i] /\ scores[i] <= 10 * current_test[i])
    /\ (Len(scores) >= 1 /\ current_test[Len(scores)] >= 0
          /\ feedback_list[Len(scores)] = "response_feedback")
          => /\ g_raw = <<"g15">>
                  => scores[Len(scores)] = Min(150, 10 * current_test[Len(scores)])
             /\ g_raw = <<"prose", "ws", "gNeg">> => scores[Len(scores)] = 0

W_C8 ==
    /\ Len(scores) >= 1
    /\ g_raw = <<"g15">>
    /\ current_test[Len(scores)] = 1
    /\ scores[Len(scores)] = 10
    /\ feedback_list[Len(scores)] = "response_feedback"

\* C9: once a model call has raised, no further model call is made: the
\* function has returned None and an error has been reported.
C9_RaiseEndsInvocation ==
    raised
        => /\ Returned
           /\ result = None
           /\ \E i \in 1..Len(msgs) :
                 msgs[i].m \in {"error_generation_failed", "error_call_failed"}

W_C9 ==
    /\ raised
    /\ Returned
    /\ attempt = 0
    /\ Last(calls).kind = "cont"
    /\ result = None

\* C10: a response that was delivered never takes the exception path of
\* the attempt loop: the except branch runs only when a model call raised.
C10_MalformedNeverExcept == caught => raised

\* the calls of one kind that attempt a has issued
CallsOf(kind, a) ==
    Cardinality({i \in 1..Len(calls) : calls[i].kind = kind /\ calls[i].attempt = a})

CallsBounded ==
    /\ attempt <= Retries + 1
    /\ \A i \in 1..Len(calls) : calls[i].attempt \in 0..Retries
    /\ \A a \in 0..Retries :
          /\ CallsOf("initial", a) <= 1
          /\ CallsOf("cont", a) <= CallsOf("initial", a)
          /\ (a < attempt) => CallsOf("initial", a) = 1
    /\ Len(calls) <= 2 * (Retries + 1)

\* C11: an invocation ends after at most retries + 1 attempts; every attempt
\* makes exactly one initial call and at most one continuation call, so no
\* more than 2 * (retries + 1) model calls are made.
C11_TerminatesWithinBudget == [](CallsBounded) /\ <>Returned

W_C11 ==
    /\ Returned
    /\ attempt = Retries + 1
    /\ Len(calls) = 2 * (Retries + 1)

\* C12: a continuation request issued with K recovered records whose
\* integer marks sum to `used` asks for expected - K >= 1 records and for
\* max(total_marks - used, remaining_count) marks, so the marks asked for
\* are at least the count, and used + marks = total_marks whenever
\* total_marks - used >= remaining_count.
C12_ContinuationBudget ==
    pc = "cont"
        => LET c == Last(calls)
               used == UsedMarks(partial)
           IN /\ c.kind = "cont"
              /\ c.count = expected - Len(partial)
              /\ c.count >= 1
              /\ c.marks = (IF total_marks - used >= c.count
                            THEN total_marks - used ELSE c.count)
              /\ c.marks >= c.count
              /\ (total_marks - used >= c.count) => (used + c.marks = total_marks)

W_C12 ==
    /\ pc = "cont"
    /\ UsedMarks(partial) >= 1
    /\ Last(calls).marks > Last(calls).count
    /\ UsedMarks(partial) + Last(calls).marks = total_marks

\* C13: when the recovered and the new records of a continuation number at
\* least `expected`, the value returned is the first `expected` elements of
\* recovered followed by new: the surplus is cut from the end and every
\* recovered record is kept.
C13_SurplusCutFromEnd ==
    (Returned /\ ~result.none /\ new_items # <<>>
        /\ Len(partial) + Len(new_items) >= expected)
        => /\ result.items = SubSeq(partial \o new_items, 1, expected)
           /\ IsPrefix(partial, result.items)

W_C13 ==
    /\ Returned
    /\ ~result.none
    /\ new_items # <<>>
    /\ Len(partial) + Len(new_items) > expected
    /\ IsPrefix(partial, result.items)

\* the element x occurs in the sequence s
Occurs(x, s) == \E j \in 1..Len(s) : s[j] = x

\* C14: every record generate_questions returns stands, unmodified, in the
\* initial response of the returning attempt or among the records taken
\* from that attempt's continuation response: nothing is fabricated, padded
\* or carried over from an earlier attempt.
C14_OnlyRecordsOfTheAttempt ==
    (fn = "gq" /\ Returned /\ ~result.none)
        => /\ \A i \in 1..Len(result.items) :
                 /\ IsDict(result.items[i])
                 /\ Occurs(result.items[i], last_raw)
                       \/ Occurs(result.items[i], new_items)
           /\ Len(result.items) <= Len(partial) + Len(new_items)
           /\ \A i \in 1..Len(partial) : Occurs(partial[i], last_raw)
           /\ Last(calls).attempt = attempt

W_C14 ==
    /\ fn = "gq"
    /\ Returned
    /\ ~result.none
    /\ attempt = 1
    /\ new_items # <<>>
    /\ Len(calls) = 4

\* C15: when the function ends in failure and returns None, last_raw is the
\* text of the latest response received in the invocation, be it the answer
\* to an initial or to a continuation prompt.
C15_LastRawIsLatest == (Returned /\ result.none) => raw_latest

\* C16: every non-None value returned is a list of records only.
C16_ReturnsRecordsOnly == (Returned /\ ~result.none) => AllDicts(result.items)

\* C17: every continuation prompt lists the records already recovered and
\* states the exact count and the exact marks total demanded.
C17_ContinuationPromptComplete ==
    pc = "cont"
        => /\ cont_shown = partial
           /\ Last(calls).count = expected - Len(partial)
           /\ Last(calls).marks
                 = Max(total_marks - UsedMarks(partial), expected - Len(partial))

\* C18: for a text T that holds an otherwise-valid array of records, the
\* extractor (_try_json, else _partial_objects; likewise _try_parse) returns
\* for T wrapped in a fenced block, whichever way the markers are laid out,
\* the records it returns for T.
C18_FenceWrapIsNoOp ==
    (ppc = "done" /\ p_wrap # "none" /\ p_kind \in {"valid", "prose"})
        => /\ p_out.extract = GQ_Parsed(p_base)
           /\ p_out.try_parse = _try_parse(p_base)

\* C19: the direct parse of the text of a valid JSON array of N well-formed
\* records returns exactly those N records, in order.
C19_DirectParseRoundTrip ==
    (ppc = "done" /\ p_wrap = "none" /\ p_kind = "valid")
        => /\ p_out.try_json = Some(p_objs)
           /\ p_out.try_parse = Some(p_objs)

\* the double-quoted writing of a single-quoted record
DoubleQuoted(t) ==
    CASE t = "s1" -> "o1"
      [] t = "s2" -> "o2"
      [] t = "s3" -> "o3"
      [] t = "sQ" -> "oQ"

\* C20: for an array of records written with single quotes around every
\* string, repair_json_candidate and a strict parse yield the records that
\* the strict parse of the double-quoted writing of the array yields.
C20_SingleQuoteRepair ==
    (ppc = "done" /\ p_wrap = "none" /\ p_kind = "single")
        => p_out.repaired
             = JsonLoads(ValidArray([i \in 1..Len(p_objs) |-> DoubleQuoted(p_objs[i])]))

\* C21: in one AI grading pass over a loaded test of n questions the model
\* calls are issued one at a time, in increasing question order, at most one
\* per question; when the pass ends `scores` and `feedback_list` each hold
\* exactly one entry for every key q_1..q_n; a question whose call raised or
\* whose response could not be parsed scores 0 and the later questions are
\* still graded.
C21_OneCallPerQuestionInOrder ==
    /\ [][(g_calls' # g_calls)
            => /\ gpc = "grading"
               /\ g_calls' = g_calls + 1
               /\ gi \in 1..Len(current_test)
               /\ gi' = gi + 1]_vars
    /\ [][(gi' # gi) => (gi' = gi + 1 \/ (gpc # "grading" /\ gi' = 1))]_vars
    /\ [](gpc \in {"grading", "graded"}
            => /\ Len(scores) = gi - 1
               /\ Len(feedback_list) = gi - 1
               /\ \A i \in 1..Len(scores) :
                     feedback_list[i] \in {"grading_error", "unable_to_parse"}
                         => scores[i] = 0)
    /\ [](gpc = "graded"
            => /\ final.present
               /\ Len(final.final_scores) = Len(current_test)
               /\ Len(final.ai_feedback) = Len(current_test))

\* a pass over two questions: the call of q_1 raised, q_2 was graded and scored
W_C21 ==
    /\ gpc = "graded"
    /\ Len(current_test) = 2
    /\ g_calls = 2
    /\ final.ai_feedback[1] = "grading_error"
    /\ final.final_scores[1] = 0
    /\ final.ai_feedback[2] = "response_feedback"
    /\ final.final_scores[2] > 0

\* C22: in generate_questions and call_gemini_api, when the initial response
\* of an attempt yields no usable record and attempt < retries, the attempt
\* counter is incremented and the initial prompt is issued again; the prompt
\* of the first attempt carries no reminder, that of every later attempt
\* carries the reminder to emit only a raw JSON array.
C22_RetryWithReminder ==
    /\ [][(pc = "initial" /\ ~raised' /\ RecordsIn(last_raw') = <<>>
             /\ attempt < Retries)
            => (attempt' = attempt + 1 /\ pc' = "initial" /\ result' = None)]_vars
    /\ [](\A i \in 1..Len(calls) :
              calls[i].kind = "initial"
                  => calls[i].reminder = (calls[i].attempt > 0))

\* C23: in call_gemini_api, when the initial response parses directly to a
\* valid array of K records with 1 <= K < expected, the continuation request
\* asks for exactly expected - K new records with the budget computed from
\* the marks of those K records, and the sequence finally returned begins
\* with those K records in their original order.
C23_DirectPartialKept ==
    LET d == _try_parse(last_raw)
    IN (fn = "cga" /\ ~d.none /\ Len(d.items) >= 1 /\ Len(d.items) < expected)
           => /\ (pc = "cont"
                    => Last(calls)
                         = ContinuationCall(attempt, expected, total_marks, d.items))
              /\ ((Returned /\ ~result.none) => IsPrefix(d.items, result.items))

\* C24: a non-None value returned by generate_questions or call_gemini_api
\* is a non-empty sequence of at most `expected` records.
C24_ReturnedWithinBounds ==
    (Returned /\ ~result.none)
        => /\ Len(result.items) >= 1
           /\ Len(result.items) <= expected
           /\ \A i \in 1..Len(result.items) : IsDict(result.items[i])

\* the direct parse of the text is an array of more than `expected` records
OverLong(raw) ==
    LET d == IF fn = "gq" THEN _try_json(raw) ELSE _try_parse(raw)
    IN ~d.none /\ Len(d.items) > expected

\* C25: in generate_questions and call_gemini_api an initial response that
\* parses to a valid array of more than `expected` records is neither
\* returned nor truncated: the attempt makes no continuation call and counts
\* as failed, and a function whose last initial response was over-long
\* returns None.
C25_OverLongFailsAttempt ==
    /\ [][(pc = "initial" /\ ~raised' /\ OverLong(last_raw'))
            => /\ result' = None
               /\ pc' = IF attempt < Retries THEN "initial" ELSE "returned"
               /\ attempt' = attempt + 1
               /\ calls' = Append(calls, Call("initial", attempt, expected, total_marks))
               /\ ~caught']_vars
    /\ []((Returned /\ OverLong(last_raw)) => (result.none /\ new_items = <<>>))

\* every attempt ended on an over-long response: None, and nothing is saved
W_C25 ==
    /\ pc = "end"
    /\ OverLong(last_raw)
    /\ result.none
    /\ attempt = Retries + 1
    /\ Len(calls) = Retries + 1
    /\ \A i \in 1..Len(calls) : calls[i].kind = "initial"
    /\ ~raised /\ ~caught
    /\ files = {}

\* C26: on the Student Test page, whenever final_scores / total_earned /
\* ai_feedback are present in the session state while a test is loaded and
\* submitted, they were computed by grading the currently loaded test with
\* the current answers.
C26_ResultsOfLoadedTest ==
    (final.present /\ current_qs # <<>> /\ test_submitted)
        => graded_of = GradedNow

\* C27: on the Student Test page test_submitted = True implies that a test
\* is loaded, student_name is non-empty and student_answers holds a
\* non-blank answer for every question q_1..q_n of the loaded test; the
\* "No answer provided" fast path of AI grading is never taken.
C27_SubmittedMeansAnswered ==
    /\ test_submitted
          => /\ current_qs # <<>>
             /\ Len(current_test) = Len(current_qs)
             /\ student_name # ""
             /\ Len(student_answers) = Len(current_qs)
             /\ \A i \in 1..Len(student_answers) : ~Blank(student_answers[i])
    /\ gpc = "grading" => test_submitted
    /\ \A i \in 1..Len(feedback_list) : feedback_list[i] # "no_answer"
    /\ \A i \in 1..Len(final.ai_feedback) : final.ai_feedback[i] # "no_answer"

\* a submitted two-question test after an AI pass that called the model twice
W_C27 ==
    /\ test_submitted
    /\ Len(current_qs) = 2
    /\ gpc = "graded"
    /\ g_calls = 2
    /\ Len(final.ai_feedback) = 2

\* C28: after an AI grading pass over a test whose questions all have max
\* marks >= 0, the stored total_earned equals the sum of the stored
\* per-question scores over q_1..q_n, and 0 <= total_earned <= total_marks,
\* the sum of the questions' max marks (scores are in tenths of a mark).
C28_TotalIsSumOfScores ==
    (final.present /\ \A i \in 1..Len(current_test) : current_test[i] >= 0)
        => /\ Len(final.final_scores) = Len(current_test)
           /\ final.total_earned = SumOf(final.final_scores)
           /\ 0 <= final.total_earned
           /\ final.total_earned <= 10 * SumOf(current_test)

\* a pass over two questions, both answered and given partial credit
W_C28 ==
    /\ final.present
    /\ Len(current_test) = 2
    /\ \A i \in 1..2 : current_test[i] >= 1 /\ final.final_scores[i] > 0
    /\ final.total_earned = final.final_scores[1] + final.final_scores[2]
    /\ final.total_earned < 10 * SumOf(current_test)

\* C29: saving a generated test never overwrites an existing test_<n>.json:
\* the file written is test_<m+1>.json where m is the largest number among
\* the test files existing at the time of the write, so after any sequence
\* of saves, those of two sessions whose steps interleave included, every
\* saved test is held in its own distinct file.
C29_SaveNeverOverwrites ==
    /\ [][\A f \in files : f \in files']_vars
    /\ [][(written' # written /\ Last(written').ok)
            => Last(written').n = NextFileNumber(files)]_vars
    /\ [](\A i \in 1..Len(written) :
              written[i].ok
                  => /\ [n |-> written[i].n, data |-> written[i].data] \in files
                     /\ \A j \in 1..Len(written) :
                           (i # j /\ written[j].ok) => written[i].n # written[j].n)

\* what both reset buttons do to the session state
ResetEffects ==
    /\ current_test' = <<>>
    /\ current_qs' = <<>>
    /\ student_answers' = <<>>
    /\ test_submitted' = FALSE
    /\ final' = NoFinal
    /\ answer_history' = answer_history

\* C30: on the Student Test page "Take Another Test" and "Keep Answers &
\* Take New Test" both reset current_test to None, student_answers to empty
\* and test_submitted to False and remove final_scores, total_earned and
\* ai_feedback, and leave answer_history unchanged; answer_history is
\* emptied only by "Clear Answer History", and every value it ever holds is
\* a non-blank answer.
C30_ResetsKeepHistory ==
    /\ [][P_TakeAnother => ResetEffects]_vars
    /\ [][P_KeepAnswers => ResetEffects]_vars
    /\ [][(current_qs # <<>> /\ current_qs' = <<>>) => ResetEffects]_vars
    /\ [][(answer_history # {} /\ answer_history' = {}) => P_ClearHistory]_vars
    /\ [](\A e \in answer_history : ~Blank(e.a))

\* a graded test was reset: no test, no results, the history still there
W_C30 ==
    /\ current_qs = <<>>
    /\ ~test_submitted
    /\ ~final.present
    /\ g_calls >= 1
    /\ \E e \in answer_history : e.q = "o2" /\ e.a = "a"

====
